---- MODULE Spec2Model ----
(***************************************************************************)
(* Model of src/pythonParse/parsepdf.py: the Tonic Solfa page analyser.    *)
(*                                                                         *)
(*   extract_text_with_coordinates  glyphs  -> words      (ExtractText)    *)
(*   classify_and_annotate_text     words   -> tokens     (Classify)       *)
(*   associate_symbols_to_notes     tokens  -> tokens     (Associate)      *)
(*   generate_json_from_dataframe   tokens  -> lines      (GenerateJson)   *)
(*                                                                         *)
(* A text is a sequence of one-character strings.  A DataFrame is the      *)
(* sequence of its rows, each row a record.  An id such as "note_3" is the *)
(* pair <<"note", 3>>; the empty id '' is <<>>; None is <<"None">>.        *)
(***************************************************************************)
EXTENDS Integers, Sequences, FiniteSets, TLC

VARIABLES pc, page, df_coords, df_classified, df_final, score_data

vars == <<pc, page, df_coords, df_classified, df_final, score_data>>

(***************************************************************************)
(* Characters and texts                                                    *)
(***************************************************************************)

\* The box-drawing glyph U+2502 of octave_regex (not the ASCII bar "|").
OctaveBar == "BAR"

Whitespace == {" "}

Digits == {"0", "1", "2", "3", "4", "5", "6", "7", "8", "9"}

\* note_regex r'[drmfslt-]' under re.IGNORECASE
IsNoteChar(c) ==
    c \in {"d", "r", "m", "f", "s", "l", "t", "-",
           "D", "R", "M", "F", "S", "L", "T"}

\* octave_regex r'[│0-9]'
IsOctaveChar(c) == c \in Digits \cup {OctaveBar}

\* rhythm_regex r'[:.,|]'
IsRhythmChar(c) == c \in {":", ".", ",", "|"}

\* combined_regex: the alternation of the three classes, one character a match
IsSymbolChar(c) == IsOctaveChar(c) \/ IsNoteChar(c) \/ IsRhythmChar(c)

RECURSIVE LStrip(_)
LStrip(s) ==
    IF s = <<>> THEN <<>>
    ELSE IF Head(s) \in Whitespace THEN LStrip(Tail(s)) ELSE s

RECURSIVE RStrip(_)
RStrip(s) ==
    IF s = <<>> THEN <<>>
    ELSE IF s[Len(s)] \in Whitespace THEN RStrip(SubSeq(s, 1, Len(s) - 1)) ELSE s

\* str.strip()
Strip(s) == RStrip(LStrip(s))

\* sep.join(parts)
RECURSIVE Join(_, _)
Join(parts, sep) ==
    IF parts = <<>> THEN <<>>
    ELSE IF Len(parts) = 1 THEN parts[1]
    ELSE parts[1] \o sep \o Join(Tail(parts), sep)

Abs(n) == IF n < 0 THEN -n ELSE n

SeqsUpTo(S, n) == UNION {[1..k -> S] : k \in 0..n}

(***************************************************************************)
(* extract_text_with_coordinates: the glyph merger                         *)
(***************************************************************************)

MergeGapX == 20
MergeGapY == 5

\* A raw coordinate is a float; the model gives it in half units (n stands
\* for n/2).  Series.round(0).astype(int) rounds half to even.
RoundHalfEven(n) ==
    LET q == n \div 2
    IN  IF n % 2 = 0 THEN q ELSE IF q % 2 = 0 THEN q ELSE q + 1

\* visitor_body: one row per text fragment, the text stripped
VisitorBody(frag) == [text |-> Strip(frag.text), x |-> frag.x, y |-> frag.y]

RECURSIVE VisitAll(_)
VisitAll(frags) ==
    IF frags = <<>> THEN <<>>
    ELSE <<VisitorBody(Head(frags))>> \o VisitAll(Tail(frags))

RECURSIVE RoundCoords(_)
RoundCoords(df) ==
    IF df = <<>> THEN <<>>
    ELSE <<[text |-> Head(df).text,
            x |-> RoundHalfEven(Head(df).x),
            y |-> RoundHalfEven(Head(df).y)]>> \o RoundCoords(Tail(df))

\* sort key (y descending, x ascending): a goes no later than b
ReadingOrderLeq(a, b) == a.y > b.y \/ (a.y = b.y /\ a.x <= b.x)

\* stable insertion of row g into a sorted frame
RECURSIVE InsertSorted(_, _)
InsertSorted(sorted, g) ==
    IF sorted = <<>> THEN <<g>>
    ELSE IF ReadingOrderLeq(Head(sorted), g)
         THEN <<Head(sorted)>> \o InsertSorted(Tail(sorted), g)
         ELSE <<g>> \o sorted

\* df.sort_values(by=['y', 'x'], ascending=[False, True]): a stable sort
RECURSIVE SortReadingOrder(_)
SortReadingOrder(df) ==
    IF df = <<>> THEN <<>>
    ELSE InsertSorted(SortReadingOrder(SubSeq(df, 1, Len(df) - 1)), df[Len(df)])

\* The glyph frame the merge loop scans: empty texts dropped, coordinates
\* rounded, rows in reading order.
SortedGlyphs(frags) ==
    LET NonEmpty(r) == r.text # <<>>
    IN  SortReadingOrder(RoundCoords(SelectSeq(VisitAll(frags), NonEmpty)))

\* One iteration of the merge loop on row nxt; cur is the running word.
MergeStepYLast(cur, nxt) ==
    IF Abs(nxt.x - cur.x) < MergeGapX /\ Abs(nxt.y - cur.y) < MergeGapY
    THEN [emit |-> <<>>,
          cur  |-> [text |-> cur.text \o nxt.text, x |-> nxt.x, y |-> nxt.y]]
    ELSE [emit |-> <<cur>>, cur |-> nxt]

MergeStep(cur, nxt) ==
    IF Abs(nxt.x - cur.x) < MergeGapX /\ Abs(nxt.y - cur.y) < MergeGapY
    THEN [emit |-> <<>>,
          cur  |-> [text |-> cur.text \o nxt.text, x |-> nxt.x, y |-> cur.y]]
    ELSE [emit |-> <<cur>>, cur |-> nxt]

RECURSIVE MergeLoop(_, _, _)
MergeLoop(df, i, cur) ==
    IF i > Len(df) THEN <<cur>>
    ELSE LET s == MergeStep(cur, df[i])
         IN  s.emit \o MergeLoop(df, i + 1, s.cur)

\* The frame of words the function returns (empty on empty input).
ExtractTextWithCoordinates(frags) ==
    LET df == SortedGlyphs(frags)
    IN  IF df = <<>> THEN <<>> ELSE MergeLoop(df, 2, df[1])

(***************************************************************************)
(* Inputs of the merger                                                    *)
(***************************************************************************)

MaxGlyphs == 3

GlyphTexts == {<<"a">>, <<" ", "b">>, <<" ">>}
\* half units: 10, 20.5 (rounds to 20), 30
GlyphXs == {20, 41, 60}
\* half units: 100, 96.5 (rounds to 96), 95
GlyphYs == {200, 193, 190}

Fragments == [text : GlyphTexts, x : GlyphXs, y : GlyphYs]

InitMerge ==
    /\ pc = "extract"
    /\ page \in SeqsUpTo(Fragments, MaxGlyphs)
    /\ df_coords = <<>>
    /\ df_classified = <<>>
    /\ df_final = <<>>
    /\ score_data = <<>>

ExtractText ==
    /\ pc = "extract"
    /\ df_coords' = ExtractTextWithCoordinates(page)
    /\ pc' = "extracted"
    /\ UNCHANGED <<page, df_classified, df_final, score_data>>

NextMerge == ExtractText

SpecMerge == InitMerge /\ [][NextMerge]_vars

(***************************************************************************)
(* classify_and_annotate_text: line classifier and token segmenter         *)
(***************************************************************************)

NoId == <<>>
NoteId(n) == <<"note", n>>
RhythmId(n) == <<"rhythm", n>>
OctaveId(n) == <<"octave", n>>

Row(text, elem, type, id) ==
    [text |-> text, x |-> elem.x, y |-> elem.y, type |-> type, id |-> id]

\* the distinct y of the frame, descending (groupby('y') ... sort_values)
RECURSIVE SortDesc(_)
SortDesc(S) ==
    IF S = {} THEN <<>>
    ELSE LET m == CHOOSE a \in S : \A b \in S : a >= b
         IN  <<m>> \o SortDesc(S \ {m})

RECURSIVE TextsOf(_)
TextsOf(df) ==
    IF df = <<>> THEN <<>> ELSE <<Head(df).text>> \o TextsOf(Tail(df))

\* lines_df: one row per y, the texts joined by ' ' in frame order, x the
\* first row's
LineOf(df, y) ==
    LET OnLine(r) == r.y = y
        rows == SelectSeq(df, OnLine)
    IN  [text |-> Join(TextsOf(rows), <<" ">>), x |-> rows[1].x, y |-> y]

HasNoteChar(text) == \E i \in 1..Len(text) : IsNoteChar(text[i])

\* octave_line_regex r'^[0-9│\s]+$'
IsOctaveLineText(text) ==
    /\ text # <<>>
    /\ \A i \in 1..Len(text) :
          text[i] \in Digits \cup {OctaveBar} \cup Whitespace

\* The note-line test as a match of the whole line (re.fullmatch).
LineTypeFullMatch(line_text) ==
    IF line_text # <<>> /\ \A i \in 1..Len(line_text) : IsNoteChar(line_text[i])
    THEN "note"
    ELSE IF IsOctaveLineText(line_text) THEN "octave"
    ELSE "lyric"

\* The note-line test first (re.search), then the octave-line test.
LineType(line_text) ==
    IF HasNoteChar(line_text) THEN "note"
    ELSE IF IsOctaveLineText(line_text) THEN "octave"
    ELSE "lyric"

\* df[df['y'] == y].sort_values(by='x'): a single-key sort, quicksort by
\* default and so not stable; rows of equal x come in the order tie ranks
\* them (tie is any ranking of the frame's rows).
RECURSIVE SortByX(_, _, _)
SortByX(df, S, tie) ==
    IF S = {} THEN <<>>
    ELSE LET m == CHOOSE i \in S : \A j \in S :
                      \/ df[i].x < df[j].x
                      \/ (df[i].x = df[j].x /\ tie[i] <= tie[j])
         IN  <<df[m]>> \o SortByX(df, S \ {m}, tie)

LineElements(df, y, tie) ==
    SortByX(df, {i \in 1..Len(df) : df[i].y = y}, tie)

\* The rhythm branch bumping the note counter (a copy-paste slip).
EmitMatchSharedCounter(c, elem, ctr) ==
    IF IsNoteChar(c) \/ c = "-"
    THEN [row |-> Row(<<c>>, elem, "note", NoteId(ctr.note + 1)),
          ctr |-> [ctr EXCEPT !.note = @ + 1]]
    ELSE IF IsRhythmChar(c)
    THEN [row |-> Row(<<c>>, elem, "rhythm", RhythmId(ctr.rhythm)),
          ctr |-> [ctr EXCEPT !.note = @ + 1]]
    ELSE [row |-> Row(<<c>>, elem, "lyric", NoId), ctr |-> ctr]

\* The row emitted for one match of combined_regex, and the counters after.
EmitMatch(c, elem, ctr) ==
    IF IsNoteChar(c) \/ c = "-"
    THEN [row |-> Row(<<c>>, elem, "note", NoteId(ctr.note + 1)),
          ctr |-> [ctr EXCEPT !.note = @ + 1]]
    ELSE IF IsRhythmChar(c)
    THEN [row |-> Row(<<c>>, elem, "rhythm", RhythmId(ctr.rhythm + 1)),
          ctr |-> [ctr EXCEPT !.rhythm = @ + 1]]
    ELSE [row |-> Row(<<c>>, elem, "lyric", NoId), ctr |-> ctr]

\* The text between two matches, stripped, without the strip.
FragmentUnstripped(text, from, to) == SubSeq(text, from, to)

\* text_to_process[last_pos:match.start()].strip()
Fragment(text, from, to) == Strip(SubSeq(text, from, to))

LyricRows(fragment, elem) ==
    IF fragment # <<>> THEN <<Row(fragment, elem, "lyric", NoId)>> ELSE <<>>

\* The loop over the matches: p scans the text, last is the first position
\* not yet emitted.
RECURSIVE ScanMatches(_, _, _, _, _, _)
ScanMatches(text, p, last, elem, ctr, out) ==
    IF p > Len(text)
    THEN [rows |-> out \o LyricRows(Fragment(text, last, Len(text)), elem),
          ctr  |-> ctr]
    ELSE IF ~IsSymbolChar(text[p])
    THEN ScanMatches(text, p + 1, last, elem, ctr, out)
    ELSE LET m == EmitMatch(text[p], elem, ctr)
         IN  ScanMatches(text, p + 1, p + 1, elem, m.ctr,
                 out \o LyricRows(Fragment(text, last, p - 1), elem) \o <<m.row>>)

\* One word of a note line.
SegmentWord(elem, ctr) ==
    LET text == Strip(elem.text)
    IN  IF text = <<>> THEN [rows |-> <<>>, ctr |-> ctr]
        ELSE IF \E i \in 1..Len(text) : IsSymbolChar(text[i])
        THEN ScanMatches(text, 1, 1, elem, ctr, <<>>)
        ELSE [rows |-> <<Row(text, elem, "lyric", NoId)>>, ctr |-> ctr]

\* One word of an octave line.
OctaveWord(elem, ctr) ==
    LET text == Strip(elem.text)
    IN  IF text = <<>> THEN [rows |-> <<>>, ctr |-> ctr]
        ELSE [rows |-> <<Row(text, elem, "octave", OctaveId(ctr.octave + 1))>>,
              ctr  |-> [ctr EXCEPT !.octave = @ + 1]]

RECURSIVE ProcessElements(_, _, _)
ProcessElements(elems, line_type, ctr) ==
    IF elems = <<>> THEN [rows |-> <<>>, ctr |-> ctr]
    ELSE LET w == IF line_type = "note" THEN SegmentWord(Head(elems), ctr)
                  ELSE OctaveWord(Head(elems), ctr)
             rest == ProcessElements(Tail(elems), line_type, w.ctr)
         IN  [rows |-> w.rows \o rest.rows, ctr |-> rest.ctr]

\* A lyric line emitted word by word.
LyricLineRowsPerWord(df, line) ==
    LET OnLine(r) == r.y = line.y
        rows == SelectSeq(df, OnLine)
    IN  [i \in 1..Len(rows) |-> Row(rows[i].text, rows[i], "lyric", NoId)]

\* A lyric line is added as it is: one row for the whole line.
LyricLineRows(df, line) == <<Row(line.text, line, "lyric", NoId)>>

ProcessLine(df, y, ctr, tie) ==
    LET line == LineOf(df, y)
        line_type == LineType(line.text)
    IN  IF line_type = "lyric"
        THEN [rows |-> LyricLineRows(df, line), ctr |-> ctr]
        ELSE ProcessElements(LineElements(df, y, tie), line_type, ctr)

RECURSIVE ProcessLines(_, _, _, _)
ProcessLines(df, ys, ctr, tie) ==
    IF ys = <<>> THEN <<>>
    ELSE LET l == ProcessLine(df, Head(ys), ctr, tie)
         IN  l.rows \o ProcessLines(df, Tail(ys), l.ctr, tie)

ClassifyAndAnnotateText(df, tie) ==
    ProcessLines(df, SortDesc({df[i].y : i \in 1..Len(df)}),
                 [note |-> 0, rhythm |-> 0, octave |-> 0], tie)

\* the rankings of n rows
TieBreaks(n) == {f \in [1..n -> 1..n] : \A i, j \in 1..n : f[i] = f[j] => i = j}

(***************************************************************************)
(* associate_symbols_to_notes                                              *)
(***************************************************************************)

None == <<"None">>

WithAssociated(row, aid) ==
    [text |-> row.text, x |-> row.x, y |-> row.y, type |-> row.type,
     id |-> row.id, associated_id |-> aid]

\* The left-hand search accepting a note at the token's own x.
RECURSIVE ClosestLeftNoteOrSameX(_, _, _, _)
ClosestLeftNoteOrSameX(notes, row, closest_note, min_dist_x) ==
    IF notes = <<>> THEN closest_note
    ELSE LET note == Head(notes)
             dist_x == row.x - note.x
         IN  IF /\ note.y = row.y
                /\ note.x <= row.x
                /\ (closest_note = <<>> \/ dist_x < min_dist_x)
             THEN ClosestLeftNoteOrSameX(Tail(notes), row, <<note>>, dist_x)
             ELSE ClosestLeftNoteOrSameX(Tail(notes), row, closest_note, min_dist_x)

\* The loop of the rhythm/continuation branch.  closest_note is <<>> for
\* None and <<note>> otherwise; while it is <<>>, min_dist_x is inf.
RECURSIVE ClosestLeftNote(_, _, _, _)
ClosestLeftNote(notes, row, closest_note, min_dist_x) ==
    IF notes = <<>> THEN closest_note
    ELSE LET note == Head(notes)
             dist_x == row.x - note.x
         IN  IF /\ note.y = row.y
                /\ note.x < row.x
                /\ (closest_note = <<>> \/ dist_x < min_dist_x)
             THEN ClosestLeftNote(Tail(notes), row, <<note>>, dist_x)
             ELSE ClosestLeftNote(Tail(notes), row, closest_note, min_dist_x)

\* The vertical search keeping the last of several nearest notes.
RECURSIVE ClosestVerticalNoteLast(_, _, _, _)
ClosestVerticalNoteLast(notes, row, closest_note, min_dist_y) ==
    IF notes = <<>> THEN closest_note
    ELSE LET note == Head(notes)
             dist_y == Abs(row.y - note.y)
         IN  IF closest_note = <<>> \/ dist_y <= min_dist_y
             THEN ClosestVerticalNoteLast(Tail(notes), row, <<note>>, dist_y)
             ELSE ClosestVerticalNoteLast(Tail(notes), row, closest_note, min_dist_y)

\* The loop of the octave branch.
RECURSIVE ClosestVerticalNote(_, _, _, _)
ClosestVerticalNote(notes, row, closest_note, min_dist_y) ==
    IF notes = <<>> THEN closest_note
    ELSE LET note == Head(notes)
             dist_y == Abs(row.y - note.y)
         IN  IF closest_note = <<>> \/ dist_y < min_dist_y
             THEN ClosestVerticalNote(Tail(notes), row, <<note>>, dist_y)
             ELSE ClosestVerticalNote(Tail(notes), row, closest_note, min_dist_y)

\* The association storing the token's own id.
AssociatedIdOwn(notes, row) ==
    IF row.type \in {"rhythm", "continuation", "octave"} /\ notes # <<>>
    THEN row.id
    ELSE None

\* The associated_id of one row.
AssociatedId(notes, row) ==
    IF row.type \in {"rhythm", "continuation"}
    THEN LET closest_note == ClosestLeftNote(notes, row, <<>>, 0)
         IN  IF closest_note # <<>> THEN closest_note[1].id ELSE None
    ELSE IF row.type = "octave"
    THEN LET closest_note == ClosestVerticalNote(notes, row, <<>>, 0)
         IN  IF closest_note # <<>> THEN closest_note[1].id ELSE None
    ELSE None

AssociateSymbolsToNotes(df) ==
    LET IsNote(r) == r.type = "note"
        notes == SelectSeq(df, IsNote)
    IN  [i \in 1..Len(df) |-> WithAssociated(df[i], AssociatedId(notes, df[i]))]

(***************************************************************************)
(* generate_json_from_dataframe                                            *)
(***************************************************************************)

\* the y of the rows in order of first appearance (the keys of lines_dict)
RECURSIVE KeysInOrder(_, _)
KeysInOrder(df, seen) ==
    IF df = <<>> THEN <<>>
    ELSE IF Head(df).y \in seen THEN KeysInOrder(Tail(df), seen)
    ELSE <<Head(df).y>> \o KeysInOrder(Tail(df), seen \cup {Head(df).y})

JsonLine(sorted, y) ==
    LET OnLine(r) == r.y = y
        elements == SelectSeq(sorted, OnLine)
        is_notes == \E i \in 1..Len(elements) :
                        elements[i].type \in {"note", "rhythm", "octave"}
    IN  [text     |-> Join(TextsOf(elements), <<" ">>),
         type     |-> IF is_notes THEN "notes" ELSE "lyrics",
         elements |-> elements]

\* score_data["lines"]
GenerateJsonFromDataframe(df) ==
    LET sorted == SortReadingOrder(df)
        keys == KeysInOrder(sorted, {})
    IN  [k \in 1..Len(keys) |-> JsonLine(sorted, keys[k])]

(***************************************************************************)
(* main, from the frame of words extract_text_with_coordinates returned    *)
(***************************************************************************)

MaxWords == 2

WordTexts ==
    {<<"d", ".">>, <<"d", "1">>, <<"-">>, <<"d", " ", "a">>,
     <<"a", " ", "b">>, <<OctaveBar, "2">>, <<".">>, <<"R">>}
WordXs == {5, 10}
WordYs == {100, 120}

Words == [text : WordTexts, x : WordXs, y : WordYs]

Word(text, x, y) == [text |-> text, x |-> x, y |-> y]

\* [("drms", 10, 100), ("lyric1", 10, 80)]
TwoLinePage ==
    <<Word(<<"d", "r", "m", "s">>, 10, 100),
      Word(<<"l", "y", "r", "i", "c", "1">>, 10, 80)>>

\* notes at y = 140, an octave word at y = 120, a note at y = 100
OctaveBetweenPage ==
    <<Word(<<"d", "r">>, 10, 140),
      Word(<<OctaveBar, "2">>, 10, 120),
      Word(<<"m">>, 10, 100)>>

WordPages == SeqsUpTo(Words, MaxWords) \cup {TwoLinePage, OctaveBetweenPage}

Init ==
    /\ pc = "extracted"
    /\ page = <<>>
    /\ df_coords \in WordPages
    /\ df_classified = <<>>
    /\ df_final = <<>>
    /\ score_data = <<>>

\* if df_coords.empty: return
MainAbort ==
    /\ pc = "extracted"
    /\ df_coords = <<>>
    /\ pc' = "aborted"
    /\ UNCHANGED <<page, df_coords, df_classified, df_final, score_data>>

Classify ==
    /\ pc = "extracted"
    /\ df_coords # <<>>
    /\ \E tie \in TieBreaks(Len(df_coords)) :
          df_classified' = ClassifyAndAnnotateText(df_coords, tie)
    /\ pc' = "classified"
    /\ UNCHANGED <<page, df_coords, df_final, score_data>>

Associate ==
    /\ pc = "classified"
    /\ df_final' = AssociateSymbolsToNotes(df_classified)
    /\ pc' = "associated"
    /\ UNCHANGED <<page, df_coords, df_classified, score_data>>

\* generate_html_from_dataframe writes a file and changes no frame
GenerateHtml ==
    /\ pc = "associated"
    /\ pc' = "html"
    /\ UNCHANGED <<page, df_coords, df_classified, df_final, score_data>>

GenerateJson ==
    /\ pc = "html"
    /\ score_data' = GenerateJsonFromDataframe(df_final)
    /\ pc' = "done"
    /\ UNCHANGED <<page, df_coords, df_classified, df_final>>

Next == MainAbort \/ Classify \/ Associate \/ GenerateHtml \/ GenerateJson

Spec == Init /\ [][Next]_vars

(***************************************************************************)
(* associate_symbols_to_notes on any token stream                          *)
(***************************************************************************)

MaxTokens == 3

AssocTypes == {"note", "rhythm", "continuation", "octave"}
AssocXs == {5, 10, 15}
AssocYs == {100, 120}

TokenShapes == [type : AssocTypes, x : AssocXs, y : AssocYs]

\* The stream of the given kinds and places, ids running per kind as the
\* segmenter numbers them.
Numbered(shape) ==
    [i \in 1..Len(shape) |->
        [text |-> <<"x">>, x |-> shape[i].x, y |-> shape[i].y,
         type |-> shape[i].type,
         id   |-> <<shape[i].type,
                    Cardinality({j \in 1..i : shape[j].type = shape[i].type})>>]]

InitAssoc ==
    /\ pc = "classified"
    /\ page = <<>>
    /\ df_coords = <<>>
    /\ \E shape \in SeqsUpTo(TokenShapes, MaxTokens) :
          df_classified = Numbered(shape)
    /\ df_final = <<>>
    /\ score_data = <<>>

NextAssoc == Associate

SpecAssoc == InitAssoc /\ [][NextAssoc]_vars

(***************************************************************************)
(* Properties                                                              *)
(***************************************************************************)

Classified == pc \in {"classified", "associated", "html", "done"}
Associated == pc \in {"associated", "html", "done"}

RowsAt(df, y) == LET OnLine(r) == r.y = y IN SelectSeq(df, OnLine)

RECURSIVE ConcatTexts(_)
ConcatTexts(df) ==
    IF df = <<>> THEN <<>> ELSE Head(df).text \o ConcatTexts(Tail(df))

LineYs(df) == {df[i].y : i \in 1..Len(df)}
LineTypeAt(df, y) == LineType(LineOf(df, y).text)

\* C1: after classification the tokens of each id-carrying kind (note,
\* rhythm, octave) carry the ids <kind>_1 .. <kind>_N in stream order, the
\* stream runs y descending and, within a line, x ascending, and the later
\* stages leave every id as it was.
C1_IdsSequential ==
    Classified =>
      /\ \A i \in 1..Len(df_classified) :
            LET t == df_classified[i]
            IN  t.type \in {"note", "rhythm", "octave"} =>
                  t.id = <<t.type,
                           Cardinality({j \in 1..i : df_classified[j].type = t.type})>>
      /\ \A i, j \in 1..Len(df_classified) :
            i < j => ReadingOrderLeq(df_classified[i], df_classified[j])
      /\ Associated =>
            /\ Len(df_final) = Len(df_classified)
            /\ \A i \in 1..Len(df_final) : df_final[i].id = df_classified[i].id

C1_Witness ==
    /\ pc = "done"
    /\ \E i \in 1..Len(df_final) : df_final[i].id = NoteId(2)
    /\ \E i \in 1..Len(df_final) : df_final[i].id = RhythmId(2)

\* C2: after association every associated_id that is not None is the id of
\* exactly one note token of the stream.
C2_AssociatedIdIsNote ==
    Associated =>
      \A i \in 1..Len(df_final) :
         df_final[i].associated_id # None =>
            Cardinality({j \in 1..Len(df_final) :
                            /\ df_final[j].type = "note"
                            /\ df_final[j].id = df_final[i].associated_id}) = 1

C2_Witness ==
    /\ Associated
    /\ \E i \in 1..Len(df_final) :
          /\ df_final[i].type = "rhythm"
          /\ df_final[i].associated_id = NoteId(1)

\* C3: the word ("d.", 10, 100) alone yields note_1 at x = 10 and rhythm_1
\* at x = 11 associated with note_1.
C3_RhythmAfterNote ==
    (Associated /\ df_coords = <<Word(<<"d", ".">>, 10, 100)>>) =>
      /\ \E i \in 1..Len(df_final) :
            /\ df_final[i].type = "note"
            /\ df_final[i].id = NoteId(1)
            /\ df_final[i].x = 10
      /\ \E i \in 1..Len(df_final) :
            /\ df_final[i].type = "rhythm"
            /\ df_final[i].id = RhythmId(1)
            /\ df_final[i].x = 11
            /\ df_final[i].associated_id = NoteId(1)

NoteRows(df) == LET IsNote(r) == r.type = "note" IN SelectSeq(df, IsNote)

\* C4 as stated: on [("drms", 10, 100), ("lyric1", 10, 80)] exactly four
\* note tokens note_1..note_4, all at y = 100, every token at y = 80 a lyric
\* without id, and lines[0].type = "notes".
C4_Original ==
    (pc = "done" /\ df_coords = TwoLinePage) =>
      /\ Len(NoteRows(df_final)) = 4
      /\ \A i \in 1..Len(NoteRows(df_final)) :
            /\ NoteRows(df_final)[i].id = NoteId(i)
            /\ NoteRows(df_final)[i].y = 100
      /\ \A i \in 1..Len(df_final) :
            df_final[i].y = 80 => df_final[i].type = "lyric" /\ df_final[i].id = NoId
      /\ score_data[1].type = "notes"

TwoLineTokens ==
    LET at100 == [x |-> 10, y |-> 100]
        at80 == [x |-> 10, y |-> 80]
    IN  <<Row(<<"d">>, at100, "note", NoteId(1)),
          Row(<<"r">>, at100, "note", NoteId(2)),
          Row(<<"m">>, at100, "note", NoteId(3)),
          Row(<<"s">>, at100, "note", NoteId(4)),
          Row(<<"l">>, at80, "note", NoteId(5)),
          Row(<<"y">>, at80, "lyric", NoId),
          Row(<<"r">>, at80, "note", NoteId(6)),
          Row(<<"i", "c">>, at80, "lyric", NoId),
          Row(<<"1">>, at80, "lyric", NoId)>>

\* C4, amended: on that input both lines are note lines ("lyric1" holds the
\* solfa letters l and r): six note tokens, note_1..note_4 at y = 100 and
\* note_5 ("l"), note_6 ("r") at y = 80 among the lyric fragments "y", "ic",
\* "1", and lines[0].type = lines[1].type = "notes".
C4_TwoLinePage ==
    (pc = "done" /\ df_coords = TwoLinePage) =>
      /\ df_classified = TwoLineTokens
      /\ Len(score_data) = 2
      /\ score_data[1].type = "notes"
      /\ score_data[2].type = "notes"

C4_Witness ==
    /\ pc = "done"
    /\ df_coords = TwoLinePage
    /\ Len(NoteRows(df_final)) = 6

\* the notes a rhythm or continuation token may be associated with
LeftNotes(df, t) ==
    {j \in 1..Len(df) : df[j].type = "note" /\ df[j].y = t.y /\ df[j].x < t.x}

\* C5: a rhythm or continuation token gets the id of a note of equal y and
\* the largest x strictly less than its own, and None when there is no note
\* of equal y and smaller x.
C5_NearestLeftNote ==
    Associated =>
      \A i \in 1..Len(df_final) :
         LET t == df_final[i]
             cands == LeftNotes(df_final, t)
         IN  t.type \in {"rhythm", "continuation"} =>
               IF cands = {} THEN t.associated_id = None
               ELSE \E j \in cands :
                       /\ t.associated_id = df_final[j].id
                       /\ \A k \in cands : df_final[k].x <= df_final[j].x

C5_Witness ==
    /\ Associated
    /\ \E i \in 1..Len(df_final) :
          /\ df_final[i].type = "continuation"
          /\ \E j, k \in LeftNotes(df_final, df_final[i]) :
                /\ df_final[j].x < df_final[k].x
                /\ df_final[i].associated_id = df_final[k].id

NoteIdx(df) == {j \in 1..Len(df) : df[j].type = "note"}

\* an octave token's associated_id is the id of a vertically nearest note
\* of the page, None exactly when the page has no note
NearestVertically(df, t) ==
    IF NoteIdx(df) = {} THEN t.associated_id = None
    ELSE \E j \in NoteIdx(df) :
            /\ t.associated_id = df[j].id
            /\ \A k \in NoteIdx(df) : Abs(t.y - df[j].y) <= Abs(t.y - df[k].y)

KeptAt(text, p) ==
    \/ text[p] \notin Whitespace
    \/ /\ \E q \in 1..(p - 1) :
             /\ text[q] \notin Whitespace
             /\ \A r \in q..p : ~IsSymbolChar(text[r])
       /\ \E q \in (p + 1)..Len(text) :
             /\ text[q] \notin Whitespace
             /\ \A r \in p..q : ~IsSymbolChar(text[r])

RECURSIVE KeptFrom(_, _)
KeptFrom(text, p) ==
    IF p > Len(text) THEN <<>>
    ELSE (IF KeptAt(text, p) THEN <<text[p]>> ELSE <<>>) \o KeptFrom(text, p + 1)

RECURSIVE ConcatKept(_)
ConcatKept(elems) ==
    IF elems = <<>> THEN <<>>
    ELSE KeptFrom(Head(elems).text, 1) \o ConcatKept(Tail(elems))

HasSymbol(text) == \E i \in 1..Len(text) : IsSymbolChar(text[i])

\* a word without any symbol, on a note line, is one lyric token
WholeWordLyric(y) ==
    \A i \in 1..Len(df_coords) :
       (df_coords[i].y = y /\ ~HasSymbol(df_coords[i].text)) =>
          \E k \in 1..Len(df_classified) :
             df_classified[k] = Row(df_coords[i].text, df_coords[i], "lyric", NoId)

\* C7 as stated: the texts of the tokens of a note line, in stream order,
\* concatenate to the texts of the line's words (taken x ascending), no
\* character dropped, duplicated or reordered; a word without symbols is
\* one lyric token.
C7_Original ==
    Classified =>
      \A y \in LineYs(df_coords) :
         LineTypeAt(df_coords, y) = "note" =>
            /\ \E tie \in TieBreaks(Len(df_coords)) :
                  ConcatTexts(RowsAt(df_classified, y))
                     = ConcatTexts(LineElements(df_coords, y, tie))
            /\ WholeWordLyric(y)

\* C7, amended: the texts of the tokens of a note line concatenate to the
\* texts of the line's words less the whitespace that begins or ends a
\* fragment between symbols (each fragment is stripped, a fragment of
\* whitespace alone is dropped); every other character is kept, once and in
\* order; a word without symbols is one lyric token carrying the whole word.
C7_SegmentationCoverage ==
    Classified =>
      \A y \in LineYs(df_coords) :
         LineTypeAt(df_coords, y) = "note" =>
            /\ \E tie \in TieBreaks(Len(df_coords)) :
                  ConcatTexts(RowsAt(df_classified, y))
                     = ConcatKept(LineElements(df_coords, y, tie))
            /\ WholeWordLyric(y)

C7_Witness ==
    /\ Classified
    /\ \E y \in WordYs :
          /\ df_coords = <<Word(<<"d", " ", "a">>, 5, y), Word(<<"a", " ", "b">>, 10, y)>>
          /\ TextsOf(df_classified) = <<<<"d">>, <<"a">>, <<"a", " ", "b">>>>

\* C8: on a note line every recognized symbol is a token of its category's
\* kind with an id of that kind (octave mark: octave, solfa letter: note,
\* rhythm character: rhythm, hyphen: continuation), and only the text
\* between symbols is a lyric token without id.
C8_SymbolKinds ==
    Classified =>
      \A i \in 1..Len(df_classified) :
         LET t == df_classified[i]
             c == t.text[1]
             Has(kind) == t.type = kind /\ t.id # NoId /\ t.id[1] = kind
         IN  LineTypeAt(df_coords, t.y) = "note" =>
               /\ (Len(t.text) = 1 /\ IsOctaveChar(c)) => Has("octave")
               /\ (Len(t.text) = 1 /\ IsNoteChar(c) /\ c # "-") => Has("note")
               /\ (Len(t.text) = 1 /\ IsRhythmChar(c)) => Has("rhythm")
               /\ (Len(t.text) = 1 /\ c = "-") => Has("continuation")
               /\ t.type = "lyric" => (t.id = NoId /\ ~HasSymbol(t.text))

\* the one row a lyric line becomes
LyricLineToken(y) ==
    LET rows == RowsAt(df_coords, y)
    IN  [text |-> Join(TextsOf(rows), <<" ">>), x |-> rows[1].x, y |-> y,
         type |-> "lyric", id |-> NoId]

\* C9 as stated: a lyric line yields one lyric token per word, with that
\* word's text, x and y and no id.
C9_Original ==
    Classified =>
      \A y \in LineYs(df_coords) :
         LineTypeAt(df_coords, y) = "lyric" =>
            LET rows == RowsAt(df_coords, y)
                toks == RowsAt(df_classified, y)
            IN  /\ Len(toks) = Len(rows)
                /\ \A k \in 1..Len(rows) :
                      \E m \in 1..Len(toks) :
                         toks[m] = Row(rows[k].text, rows[k], "lyric", NoId)

\* C9, amended: a lyric line yields exactly one lyric token for the whole
\* line: its text is the line's words joined by one space in frame order,
\* its x the first word's, its y the line's, and it has no id.
C9_LyricLineOneToken ==
    Classified =>
      \A y \in LineYs(df_coords) :
         LineTypeAt(df_coords, y) = "lyric" =>
            RowsAt(df_classified, y) = <<LyricLineToken(y)>>

C9_Witness ==
    /\ Classified
    /\ df_coords = <<Word(<<"a", " ", "b">>, 10, 100), Word(<<"a", " ", "b">>, 5, 100)>>
    /\ df_classified =
          <<[text |-> <<"a", " ", "b", " ", "a", " ", "b">>, x |-> 10, y |-> 100,
             type |-> "lyric", id |-> NoId]>>

\* the first glyph of the run that glyph k lies in, B the later runs' starts
RunStart(B, k) == CHOOSE b \in B \cup {1} : b <= k /\ \A c \in B : c <= k => c <= b

RunEnd(B, n, b) ==
    IF \E c \in B : c > b
    THEN (CHOOSE c \in B : c > b /\ \A d \in B : d > b => c <= d) - 1
    ELSE n

\* the words of the runs from glyph b on; a word's y is its first glyph's
\* (yFirst) or its last glyph's
RECURSIVE RunWords(_, _, _, _)
RunWords(g, B, b, yFirst) ==
    LET e == RunEnd(B, Len(g), b)
        w == [text |-> ConcatTexts(SubSeq(g, b, e)),
              x |-> g[e].x,
              y |-> IF yFirst THEN g[b].y ELSE g[e].y]
    IN  <<w>> \o (IF e = Len(g) THEN <<>> ELSE RunWords(g, B, e + 1, yFirst))

\* C10 as stated: a glyph joins the current word exactly when it is less
\* than 20 across and less than 5 down from the word's last position, a
\* word's text is its glyphs' texts in order, and its x and y are the last
\* merged glyph's.
C10_Original ==
    pc = "extracted" =>
      LET g == SortedGlyphs(page)
      IN  IF g = <<>> THEN df_coords = <<>>
          ELSE \E B \in SUBSET (2..Len(g)) :
                  /\ \A i \in 2..Len(g) :
                        i \notin B <=>
                           /\ Abs(g[i].x - g[i - 1].x) < MergeGapX
                           /\ Abs(g[i].y - g[i - 1].y) < MergeGapY
                  /\ df_coords = RunWords(g, B, 1, FALSE)

\* C10, amended: a glyph joins the current word exactly when it is less
\* than 20 across from the last merged glyph and less than 5 down from the
\* word's first glyph; a word's text is its glyphs' texts in order, its x
\* is the last merged glyph's and its y is the first glyph's.
C10_MergedWords ==
    pc = "extracted" =>
      LET g == SortedGlyphs(page)
      IN  IF g = <<>> THEN df_coords = <<>>
          ELSE \E B \in SUBSET (2..Len(g)) :
                  /\ \A i \in 2..Len(g) :
                        i \notin B <=>
                           /\ Abs(g[i].x - g[i - 1].x) < MergeGapX
                           /\ Abs(g[i].y - g[RunStart(B, i - 1)].y) < MergeGapY
                  /\ df_coords = RunWords(g, B, 1, TRUE)

C10_Witness ==
    LET g == SortedGlyphs(page)
    IN  /\ pc = "extracted"
        /\ Len(g) = 3
        /\ Len(df_coords) = 2
        /\ g[1].y # g[2].y
        /\ df_coords[1] = [text |-> g[1].text \o g[2].text, x |-> g[2].x, y |-> g[1].y]
        /\ df_coords[2] = g[3]

====
